---- MODULE Spec2Model ----
(***************************************************************************)
(* Model of skin_merge.py: locating the effective skinCluster of an object *)
(* (get_deform_shape, get_skin_cluster) and transplanting it onto a second *)
(* object (move_skin), driven by the script body (main) and log.           *)
(*                                                                         *)
(* Scene encoding.  An object is a transform with a list of child shapes;  *)
(* node 0 is the transform, node k (k >= 1) is its k-th shape, any other   *)
(* node id is an unrelated node of the scene.  `shapes` holds the          *)
(* intermediateObject flag of each child shape.  `history` lists the       *)
(* skinClusters of pm.listHistory(shape) in host order; for each one       *)
(* `conn` says whether skin.input[0].groupId has an incoming connection    *)
(* and `outs` is the set of nodes the driving groupId plug feeds.          *)
(* An optional value (a PyNode or None) is a sequence of length <= 1.      *)
(***************************************************************************)
EXTENDS Integers, Naturals, Sequences, FiniteSets, TLC

VARIABLES
    pc,         \* position in the script
    exc,        \* exception that ended the run ("" when none)
    nsel,       \* len(pm.selected())
    selCleared, \* pm.select(cl=True) has run
    shapes,     \* source object: intermediate flag of each child shape
    ob,         \* source object as passed: 0 the transform, k its k-th shape
    history,    \* source object: skinClusters in history order
    wd,         \* weightDistribution of each skinCluster of history
    tshapes,    \* target object: intermediate flag of each child shape
    nvS,        \* numVertices of the source mesh
    nvT,        \* numVertices of the target mesh
    skin,       \* attributes of the source skinCluster and of the new one
    loc,        \* locals of move_skin
    result,     \* value returned by a direct call of a locator function
    logged      \* severities of the lines given to the host's log

vars == <<pc, exc, nsel, selCleared, shapes, ob, history, wd, tshapes,
          nvS, nvT, skin, loc, result, logged>>

----------------------------------------------------------------------------
(* Bounds *)

MaxShapes == 2
MaxSkins  == 2
MaxSlot   == 2
MaxVerts  == 2
MaxSel    == 3

(* Program constants *)

Neighbors == 1
RequiredSelection == 2

----------------------------------------------------------------------------
(* Values *)

None == <<>>
Some(x) == <<x>>

Nodes == 0 .. MaxShapes
Slots == 0 .. (MaxSlot - 1)
Verts == 0 .. (MaxVerts - 1)

ShapeLists == UNION { [1 .. n -> BOOLEAN] : n \in 0 .. MaxShapes }

SkinNodes == { [conn |-> c, outs |-> s] : c \in BOOLEAN, s \in SUBSET Nodes }

Histories ==
    UNION { [1 .. n -> { h \in SkinNodes : ~h.conn => h.outs = {} }] :
            n \in 0 .. MaxSkins }

Min(a, b) == IF a <= b THEN a ELSE b

----------------------------------------------------------------------------
(* get_deform_shape *)

ShapeTypes == {"nurbsSurface", "mesh", "nurbsCurve"}

\* ob.type(): node 0 is a transform, its children are meshes
TypeOf(o) == IF o = 0 THEN "transform" ELSE "mesh"

\* ob.getParent(): the parent of a child shape is the transform
GetParent(o) == IF o = 0 THEN o ELSE 0

\* the first shape not flagged intermediate, from position k on
RECURSIVE first_real_shape(_, _)
first_real_shape(shp, k) ==
    IF k > Len(shp) THEN None
    ELSE IF ~shp[k] THEN Some(k)
    ELSE first_real_shape(shp, k + 1)

\* pm.PyNode(ob).getShapes(): the child shapes of the transform
getShapes(t, shp) == IF t = 0 THEN shp ELSE <<>>

\* variant that takes the first shape whatever its flag
get_deform_shape_unfiltered(o, shp) ==
    LET t == IF TypeOf(o) \in ShapeTypes THEN GetParent(o) ELSE o
        s == getShapes(t, shp)
    IN  IF Len(s) = 0 THEN None ELSE Some(1)

get_deform_shape(o, shp) ==
    LET t == IF TypeOf(o) \in ShapeTypes THEN GetParent(o) ELSE o
        s == getShapes(t, shp)
    IN  IF Len(s) = 1 THEN Some(1)
        ELSE first_real_shape(s, 1)

----------------------------------------------------------------------------
(* get_skin_cluster *)

NotFound == [kind |-> "None", idx |-> 0]

\* the loop over skins, from position k on
RECURSIVE scan_skins(_, _, _, _)
scan_skins(hist, k, shape, o) ==
    IF k > Len(hist) THEN NotFound
    ELSE IF ~hist[k].conn THEN [kind |-> "IndexError", idx |-> k]
    ELSE IF \E node \in hist[k].outs : Some(node) = shape \/ node = o
         THEN [kind |-> "skin", idx |-> k]
    ELSE scan_skins(hist, k + 1, shape, o)

\* variant that returns the first skin of the history unexamined
get_skin_cluster_first(o, shp, hist) ==
    IF get_deform_shape(o, shp) = None \/ Len(hist) = 0 THEN NotFound
    ELSE [kind |-> "skin", idx |-> 1]

get_skin_cluster(o, shp, hist) ==
    LET shape == get_deform_shape(o, shp)
    IN  IF shape = None THEN NotFound
        ELSE scan_skins(hist, 1, shape, o)

\* skin.weightDistribution.set(1) on the skin that is returned
force_neighbors(w, res) ==
    IF res.kind = "skin" THEN [w EXCEPT ![res.idx] = Neighbors] ELSE w

----------------------------------------------------------------------------
(* skinCluster attributes                                                  *)
(*                                                                         *)
(* bindPreMatrix and matrix are sparse multi attributes: a slot is either  *)
(* unpopulated (it reads as the default value 0 and is skipped when the    *)
(* attribute is iterated), populated with a value, or populated and driven *)
(* by an upstream plug (conn # 0).  Matrix values and plugs are labelled   *)
(* by the slot they start in, so that a displaced copy is visible.         *)
(* weights[<<v, i>>] is the weight of vertex v for the i-th influence.     *)

Unpopulated == [pop |-> FALSE, val |-> 0, conn |-> 0]

BindVal(i) == i + 1
MatVal(i)  == MaxSlot + i + 1

\* the value an upstream plug delivers
PlugValue(p) == p

SlotStates(v) ==
    { Unpopulated,
      [pop |-> TRUE, val |-> v, conn |-> 0],
      [pop |-> TRUE, val |-> v, conn |-> v] }

BindAttrs   == { f \in [Slots -> UNION { SlotStates(BindVal(i)) : i \in Slots }] :
                 \A i \in Slots : f[i] \in SlotStates(BindVal(i)) }
MatrixAttrs == { f \in [Slots -> UNION { SlotStates(MatVal(i)) : i \in Slots }] :
                 \A i \in Slots : f[i] \in SlotStates(MatVal(i)) }

NoWeights == [p \in Verts \X Slots |-> 0]

\* a deformer that pm.deformer has not created (yet)
Absent ==
    [exists |-> FALSE, name |-> <<>>,
     bindPreMatrix |-> [i \in Slots |-> Unpopulated],
     matrix |-> [i \in Slots |-> Unpopulated],
     weights |-> NoWeights, wset |-> FALSE]

\* number of influence objects: the connected elements of matrix
InfluenceCount(sk) == Cardinality({ i \in Slots : sk.matrix[i].conn # 0 })

\* the weight table of a source with nv vertices and ic influences
LabelledWeights(nv, ic) ==
    [p \in Verts \X Slots |->
        IF p[1] < nv /\ p[2] < ic THEN p[1] * MaxSlot + p[2] + 1 ELSE 0]

\* iterating a multi attribute yields its populated elements, ascending
RECURSIVE elements(_, _)
elements(attr, i) ==
    IF i >= MaxSlot THEN <<>>
    ELSE (IF attr[i].pop THEN <<i>> ELSE <<>>) \o elements(attr, i + 1)

\* [ (x.inputs(plugs=True)[0] if x.isConnected() else None) for x in attr ]
inputs_of(attr) ==
    LET e == elements(attr, 0) IN [k \in 1 .. Len(e) |-> attr[e[k]].conn]

\* [ x.get() for x in attr ]
values_of(attr) ==
    LET e == elements(attr, 0) IN [k \in 1 .. Len(e) |-> attr[e[k]].val]

\* MFnSkinCluster.getWeights over a complete component of nv vertices:
\* a flat array, vertex-major, of nv * ic weights
getWeights(w, nv, ic) ==
    [k \in 1 .. nv * ic |-> w[<<(k - 1) \div ic, (k - 1) % ic>>]]

\* MFnSkinCluster.setWeights over a complete component of nv vertices and
\* the influence indices `indices`: weight k of vertex v goes to influence
\* indices[k + 1]; entries the flat array does not hold are left alone
setWeights(w, nv, indices, flat) ==
    [p \in Verts \X Slots |->
        LET hit == { k \in 1 .. Len(indices) : indices[k] = p[2] }
        IN  IF p[1] < nv /\ hit # {}
            THEN LET k == CHOOSE x \in hit : TRUE
                     pos == p[1] * Len(indices) + k
                 IN  IF pos <= Len(flat) THEN flat[pos] ELSE w[p]
            ELSE w[p]]

\* variant that lists the influence indices downwards
all_indices_reversed(ic) == [k \in 1 .. ic |-> ic - k]

\* om2.MIntArray( range(influence_count) )
all_indices(ic) == [k \in 1 .. ic |-> k - 1]

\* attr[index].set( value )
set_value(attr, index, value) ==
    [attr EXCEPT ![index] = [pop |-> TRUE, val |-> value, conn |-> @.conn]]

\* plug >> attr[index]
connect(plug, attr, index) ==
    [attr EXCEPT ![index] = [pop |-> TRUE, val |-> PlugValue(plug), conn |-> plug]]

\* variant in which the handle names the source skin
target_skin_aliased == "source"

\* the skin move_skin writes to: the new deformer pm.deformer returns
target_skin == "target"

\* the number of iterations of zip( xrange(influence_count), a, b )
zip_len(ic, a, b) == Min(ic, Min(Len(a), Len(b)))

NoLocals ==
    [source_skin |-> 0, weights |-> <<>>, influence_count |-> 0,
     bind_inputs |-> <<>>, bind_values |-> <<>>,
     mat_inputs |-> <<>>, mat_values |-> <<>>, index |-> 0]

----------------------------------------------------------------------------
(* log *)

\* the names the module binds at import
ImportedNames == {"om2", "oma2", "pm"}

\* log( msg, warn, error ): the exception it raises and the lines it emits
log(warn, error) ==
    IF warn /\ error THEN [exc |-> "ValueError", out |-> <<>>]
    ELSE IF "om" \notin ImportedNames THEN [exc |-> "NameError", out |-> <<>>]
    ELSE [exc |-> "",
          out |-> << IF warn THEN "warning" ELSE IF error THEN "error" ELSE "info" >>]

----------------------------------------------------------------------------
(* The script: main and move_skin *)

\* Source objects the script is run on: a skinned mesh, a mesh with its
\* intermediate original shape and two layered skins, a mesh whose second
\* skin feeds the transform, a lone intermediate shape, and the objects
\* on which the source cannot be located.
Reach(s) == [conn |-> TRUE, outs |-> s]
SourceScenes ==
    { [shapes |-> <<FALSE>>,       history |-> <<Reach({1})>>],
      [shapes |-> <<TRUE, FALSE>>, history |-> <<Reach({2}), Reach({})>>],
      [shapes |-> <<FALSE>>,       history |-> <<Reach({}), Reach({0})>>],
      [shapes |-> <<TRUE>>,        history |-> <<Reach({1})>>],
      [shapes |-> <<>>,            history |-> <<>>],
      [shapes |-> <<TRUE, TRUE>>,  history |-> <<Reach({1})>>],
      [shapes |-> <<FALSE>>,       history |-> <<>>],
      [shapes |-> <<FALSE>>,       history |-> <<Reach({})>>],
      [shapes |-> <<FALSE>>,       history |-> <<[conn |-> FALSE, outs |-> {}]>>] }

\* Target objects: a mesh, and a transform without a deformable shape
TargetShapes == { <<FALSE>>, <<TRUE, TRUE>> }

Init ==
    /\ pc = "start"
    /\ exc = ""
    /\ nsel \in 0 .. MaxSel
    /\ selCleared = FALSE
    /\ \E sc \in SourceScenes : shapes = sc.shapes /\ history = sc.history
    /\ ob = 0
    /\ wd = [k \in 1 .. Len(history) |-> 0]
    /\ tshapes \in TargetShapes
    /\ nvS \in 1 .. MaxVerts
    /\ nvT \in 1 .. MaxVerts
    /\ IF Len(history) = 0
       THEN \* no skinCluster in the history of the source
            skin = [source |-> Absent, target |-> Absent]
       ELSE \E b \in BindAttrs, m \in MatrixAttrs :
               skin = [source |->
                          [exists |-> TRUE, name |-> <<"skinCluster1">>,
                           bindPreMatrix |-> b, matrix |-> m,
                           weights |-> LabelledWeights(nvS,
                                          Cardinality({ i \in Slots : m[i].conn # 0 })),
                           wset |-> TRUE],
                       target |-> Absent]
    /\ loc = NoLocals
    /\ result = [fn |-> "", kind |-> "", idx |-> 0]
    /\ logged = <<>>

Raise(e) ==
    /\ pc' = "failed"
    /\ exc' = e

\* items = pm.selected(); if len(items) == 2: ... else: log( ..., error=True )
Main ==
    /\ pc = "start"
    /\ IF nsel = RequiredSelection
       THEN /\ pc' = "resolve"
            /\ UNCHANGED <<exc, logged>>
       ELSE LET r == log(FALSE, TRUE)
            IN  /\ logged' = logged \o r.out
                /\ IF r.exc # "" THEN Raise(r.exc)
                   ELSE pc' = "done" /\ UNCHANGED exc
    /\ UNCHANGED <<nsel, selCleared, shapes, ob, history, wd, tshapes,
                   nvS, nvT, skin, loc, result>>

\* move_skin, lines 108-116: the source shape, skin, mesh and weights
MoveResolve ==
    /\ pc = "resolve"
    /\ LET shape == get_deform_shape(ob, shapes)
           res   == get_skin_cluster(ob, shapes, history)
           ic    == InfluenceCount(skin.source)
       IN  IF shape = None
           THEN \* None.longName()
                /\ Raise("AttributeError")
                /\ UNCHANGED <<wd, loc, selCleared>>
           ELSE /\ wd' = force_neighbors(wd, res)
                /\ IF res.kind = "IndexError"
                   THEN Raise("IndexError") /\ UNCHANGED <<loc, selCleared>>
                   ELSE IF res.kind = "None"
                   THEN \* the host rejects the None skin at MFnSkinCluster(None)
                        \* or at getWeights; source_skin.name() fails at the
                        \* latest, after the selection was cleared
                        /\ \E e \in {"TypeError", "RuntimeError", "AttributeError"} :
                              /\ Raise(e)
                              /\ selCleared' = (e = "AttributeError")
                        /\ UNCHANGED loc
                   ELSE /\ loc' = [loc EXCEPT
                                     !.source_skin = res.idx,
                                     !.weights = getWeights(skin.source.weights, nvS, ic),
                                     !.influence_count = ic]
                        /\ pc' = "create"
                        /\ UNCHANGED <<exc, selCleared>>
    /\ UNCHANGED <<nsel, shapes, ob, history, tshapes, nvS, nvT, skin,
                   result, logged>>

\* the locals read from the source skin, lines 121-124
read_inputs(l, src) ==
    [l EXCEPT !.bind_inputs = inputs_of(src.bindPreMatrix),
              !.bind_values = values_of(src.bindPreMatrix),
              !.mat_inputs  = inputs_of(src.matrix),
              !.mat_values  = values_of(src.matrix),
              !.index = 0]

\* move_skin, lines 117-124, on a target pm.deformer accepts
MoveCreate ==
    /\ pc = "create"
    /\ selCleared' = TRUE
    /\ skin' = [skin EXCEPT ![target_skin] =
                   [Absent EXCEPT !.exists = TRUE,
                                  !.name = <<"MERGED__">> \o skin.source.name]]
    /\ loc' = read_inputs(loc, skin.source)
    /\ pc' = "values"
    /\ UNCHANGED <<exc, nsel, shapes, ob, history, wd, tshapes, nvS, nvT,
                   result, logged>>

\* move_skin, lines 117-118, on a target without a deformable shape:
\* the host may refuse to create the deformer
MoveCreateRefused ==
    /\ pc = "create"
    /\ get_deform_shape(0, tshapes) = None
    /\ selCleared' = TRUE
    /\ Raise("RuntimeError")
    /\ UNCHANGED <<nsel, shapes, ob, history, wd, tshapes, nvS, nvT, skin,
                   loc, result, logged>>

\* variant that leaves the first loop after one iteration
values_done_early(i, n) == i >= n \/ i >= 1

\* whether the first loop (line 126) has run out
values_done(i, n) == i >= n

\* one iteration of the first loop, lines 126-128, or its exit
MoveSetValues ==
    /\ pc = "values"
    /\ LET n == zip_len(loc.influence_count, loc.bind_values, loc.mat_values)
           i == loc.index
       IN  IF values_done(i, n)
           THEN /\ pc' = "connections"
                /\ loc' = [loc EXCEPT !.index = 0]
                /\ UNCHANGED skin
           ELSE /\ skin' = [skin EXCEPT
                              ![target_skin].bindPreMatrix =
                                  set_value(@, i, loc.bind_values[i + 1]),
                              ![target_skin].matrix =
                                  set_value(@, i, loc.mat_values[i + 1])]
                /\ loc' = [loc EXCEPT !.index = i + 1]
                /\ UNCHANGED pc
    /\ UNCHANGED <<exc, nsel, selCleared, shapes, ob, history, wd, tshapes,
                   nvS, nvT, result, logged>>

\* one iteration of the second loop, lines 130-134, or its exit
MoveConnect ==
    /\ pc = "connections"
    /\ LET n == zip_len(loc.influence_count, loc.bind_inputs, loc.mat_inputs)
           i == loc.index
           b == loc.bind_inputs[i + 1]
           m == loc.mat_inputs[i + 1]
       IN  IF i >= n
           THEN /\ pc' = "weights"
                /\ UNCHANGED <<skin, loc>>
           ELSE /\ skin' = [skin EXCEPT
                              ![target_skin].bindPreMatrix =
                                  IF b # 0 THEN connect(b, @, i) ELSE @,
                              ![target_skin].matrix =
                                  IF m # 0 THEN connect(m, @, i) ELSE @]
                /\ loc' = [loc EXCEPT !.index = i + 1]
                /\ UNCHANGED pc
    /\ UNCHANGED <<exc, nsel, selCleared, shapes, ob, history, wd, tshapes,
                   nvS, nvT, result, logged>>

\* the weights after line 143
written_weights(w, l, nv) ==
    setWeights(w, nv, all_indices(l.influence_count), l.weights)

\* move_skin, lines 137-143, the host accepting the weights
MoveSetWeights ==
    /\ pc = "weights"
    /\ get_deform_shape(0, tshapes) # None
    /\ skin' = [skin EXCEPT
                  ![target_skin].weights = written_weights(@, loc, nvT),
                  ![target_skin].wset = TRUE]
    /\ pc' = "moved"
    /\ UNCHANGED <<exc, nsel, selCleared, shapes, ob, history, wd, tshapes,
                   nvS, nvT, loc, result, logged>>

\* move_skin, lines 137-143, failing: the target has no deform shape
\* (None.longName(), line 139), or the host rejects an array whose length
\* or influence indices do not fit the target deformer
MoveSetWeightsFails ==
    /\ pc = "weights"
    /\ \/ /\ get_deform_shape(0, tshapes) = None
          /\ Raise("AttributeError")
       \/ /\ get_deform_shape(0, tshapes) # None
          /\ \/ nvS # nvT
             \/ InfluenceCount(skin.target) < loc.influence_count
          /\ Raise("RuntimeError")
    /\ UNCHANGED <<nsel, selCleared, shapes, ob, history, wd, tshapes,
                   nvS, nvT, skin, loc, result, logged>>

\* log( '+ SkinMerge: Complete. ...' ), lines 154-157
MainLogComplete ==
    /\ pc = "moved"
    /\ LET r == log(FALSE, FALSE)
       IN  /\ logged' = logged \o r.out
           /\ IF r.exc # "" THEN Raise(r.exc)
              ELSE pc' = "done" /\ UNCHANGED exc
    /\ UNCHANGED <<nsel, selCleared, shapes, ob, history, wd, tshapes,
                   nvS, nvT, skin, loc, result>>

Next ==
    \/ Main
    \/ MoveResolve
    \/ MoveCreate
    \/ MoveCreateRefused
    \/ MoveSetValues
    \/ MoveConnect
    \/ MoveSetWeights
    \/ MoveSetWeightsFails
    \/ MainLogComplete

Spec == Init /\ [][Next]_vars

----------------------------------------------------------------------------
(* Direct calls of the locator functions, over every small scene *)

InitLocate ==
    /\ pc = "idle"
    /\ exc = ""
    /\ nsel = 0
    /\ selCleared = FALSE
    /\ shapes \in ShapeLists
    /\ ob \in 0 .. Len(shapes)
    /\ history \in Histories
    /\ \E d \in {0, Neighbors} : wd = [k \in 1 .. Len(history) |-> d]
    /\ tshapes = <<>>
    /\ nvS = 1
    /\ nvT = 1
    /\ skin = [source |-> Absent, target |-> Absent]
    /\ loc = NoLocals
    /\ result = [fn |-> "", kind |-> "", idx |-> 0]
    /\ logged = <<>>

\* shape = get_deform_shape( ob )
CallGetDeformShape ==
    /\ pc = "idle"
    /\ LET s == get_deform_shape(ob, shapes)
       IN  result' = IF s = None
                     THEN [fn |-> "get_deform_shape", kind |-> "None", idx |-> 0]
                     ELSE [fn |-> "get_deform_shape", kind |-> "shape", idx |-> s[1]]
    /\ pc' = "returned"
    /\ UNCHANGED <<exc, nsel, selCleared, shapes, ob, history, wd, tshapes,
                   nvS, nvT, skin, loc, logged>>

\* skin = get_skin_cluster( ob )
CallGetSkinCluster ==
    /\ pc = "idle"
    /\ LET res == get_skin_cluster(ob, shapes, history)
       IN  /\ result' = [fn |-> "get_skin_cluster", kind |-> res.kind, idx |-> res.idx]
           /\ wd' = force_neighbors(wd, res)
           /\ IF res.kind = "IndexError"
              THEN Raise("IndexError")
              ELSE pc' = "returned" /\ UNCHANGED exc
    /\ UNCHANGED <<nsel, selCleared, shapes, ob, history, tshapes,
                   nvS, nvT, skin, loc, logged>>

NextLocate ==
    \/ CallGetDeformShape
    \/ CallGetSkinCluster

SpecLocate == InitLocate /\ [][NextLocate]_vars

----------------------------------------------------------------------------
(* Vocabulary of the properties *)

Source == skin.source
Target == skin.target

\* move_skin has run to its last line
MoveCompleted == Target.wset

\* the run of the script has ended
Ended == pc \in {"done", "failed"}

\* the resolved deform shape of the source object
DeformShape == get_deform_shape(ob, shapes)

\* skin k of the history feeds the deform shape or the object
Reaching(k) ==
    /\ history[k].conn
    /\ \E node \in history[k].outs : Some(node) = DeformShape \/ node = ob

SomeReaching == \E k \in 1 .. Len(history) : Reaching(k)

FirstReaching ==
    CHOOSE k \in 1 .. Len(history) :
        Reaching(k) /\ \A j \in 1 .. (k - 1) : ~Reaching(j)

\* the real (not intermediate) shapes of the object
RealShapes == { k \in 1 .. Len(shapes) : ~shapes[k] }

FirstRealShape == CHOOSE k \in RealShapes : \A j \in RealShapes : k <= j

\* the slot indices the two loops of move_skin go through
Processed ==
    0 .. (Min(loc.influence_count,
              Min(Len(loc.bind_values), Len(loc.mat_values))) - 1)

----------------------------------------------------------------------------
(* C1: after move_skin completes on meshes of equal vertex count, the      *)
(* weight of every (vertex, influence index) with the index in             *)
(* [0, influence_count) read from the new target deformer equals the       *)
(* weight the source deformer holds at the same position.                  *)
C1_WeightRoundTrip ==
    (MoveCompleted /\ nvS = nvT) =>
        \A v \in 0 .. (nvT - 1) : \A i \in 0 .. (loc.influence_count - 1) :
            Target.weights[<<v, i>>] = Source.weights[<<v, i>>]

\* a completed transplant of a table of two vertices and two influences
C1_Witness ==
    /\ MoveCompleted /\ nvS = nvT /\ nvT = 2
    /\ loc.influence_count = 2
    /\ Target.weights[<<1, 1>>] # Target.weights[<<1, 0>>]
    /\ Target.weights[<<1, 1>>] # 0

(* C2: after move_skin completes, for every slot index i in                *)
(* [0, influence_count) the target's bindPreMatrix[i] and matrix[i] values *)
(* equal the source's values at the same index, connected or not, whatever *)
(* the number of populated slots of the source.                            *)
C2_ValuesCopied ==
    MoveCompleted =>
        \A i \in 0 .. (loc.influence_count - 1) :
            /\ Target.bindPreMatrix[i].val = Source.bindPreMatrix[i].val
            /\ Target.matrix[i].val = Source.matrix[i].val

(* C3: a target slot never carries a connection its source slot lacks, and *)
(* after move_skin completes every slot i in [0, influence_count) of the   *)
(* target is connected exactly when the source's slot i is, to the same    *)
(* upstream plug.                                                          *)
C3_ConnectionsIff ==
    /\ \A i \in Slots :
          /\ Target.bindPreMatrix[i].conn # 0 =>
                Target.bindPreMatrix[i].conn = Source.bindPreMatrix[i].conn
          /\ Target.matrix[i].conn # 0 =>
                Target.matrix[i].conn = Source.matrix[i].conn
    /\ MoveCompleted =>
          \A i \in 0 .. (loc.influence_count - 1) :
              /\ Target.bindPreMatrix[i].conn = Source.bindPreMatrix[i].conn
              /\ Target.matrix[i].conn = Source.matrix[i].conn

(* C4: get_skin_cluster returns the first skin of the history whose        *)
(* groupId outputs reach the deform shape or the object, and never a skin  *)
(* whose outputs do not reach them.                                        *)
C4_FirstReachingReturned ==
    result.fn = "get_skin_cluster" =>
        /\ (DeformShape # None /\ SomeReaching) =>
              (result.kind = "skin" /\ result.idx = FirstReaching)
        /\ result.kind = "skin" => Reaching(result.idx)

(* C5: get_deform_shape returns the first child shape not flagged          *)
(* intermediate when there is one and None when there is none, for any     *)
(* number of child shapes; it never returns an intermediate shape.         *)
C5_NeverIntermediate ==
    result.fn = "get_deform_shape" =>
        IF RealShapes # {}
        THEN result.kind = "shape" /\ result.idx = FirstRealShape
        ELSE result.kind = "None"

(* C5, as the code has it: a transform with exactly one child shape yields *)
(* that shape whatever its flag; with no shape or two and more, the first  *)
(* shape not flagged intermediate, or None when there is none.             *)
C5_SingleShapeUnfiltered ==
    result.fn = "get_deform_shape" =>
        IF Len(shapes) = 1
        THEN result.kind = "shape" /\ result.idx = 1
        ELSE IF RealShapes # {}
        THEN result.kind = "shape" /\ result.idx = FirstRealShape
        ELSE result.kind = "None"

\* the call skipped an intermediate first shape for the real second one
C5_Witness ==
    /\ result.fn = "get_deform_shape"
    /\ Len(shapes) = 2 /\ shapes[1] /\ ~shapes[2]
    /\ ob = 2
    /\ result.kind = "shape" /\ result.idx = 2

(* C6: with a selection of any size other than two the run mutates nothing *)
(* and ends having emitted exactly one error-severity log line.            *)
C6_SelectionError ==
    (nsel # RequiredSelection /\ Ended) =>
        /\ ~Target.exists
        /\ ~selCleared
        /\ \A k \in 1 .. Len(wd) : wd[k] = 0
        /\ logged = <<"error">>

(* C7: get_skin_cluster never raises: when the deform shape cannot be      *)
(* resolved or no skin of the history reaches the shape or the object      *)
(* (unconnected groupId inputs included) it returns None.                  *)
C7_NotFoundReturned ==
    result.fn = "get_skin_cluster" =>
        /\ result.kind # "IndexError"
        /\ (DeformShape = None \/ ~SomeReaching) => result.kind = "None"

(* C8: no step of a run changes any attribute of the source deformer, its  *)
(* weightDistribution setting included.                                    *)
C8_SourceReadOnly ==
    [][skin'.source = skin.source /\ wd' = wd]_vars

(* C8, as the code has it: no step changes the source deformer's weights,  *)
(* values or connections; the one attribute written is weightDistribution, *)
(* set to 1 (neighbors) on the skin get_skin_cluster returns.              *)
C8_SourceReadOnlyButDistribution ==
    [][/\ skin'.source = skin.source
       /\ \A k \in 1 .. Len(wd) :
             wd'[k] # wd[k] =>
                 (wd'[k] = Neighbors /\ SomeReaching /\ k = FirstReaching)]_vars

\* a completed transplant from a source with connected and plain slots
C8_Witness ==
    /\ MoveCompleted
    /\ wd[loc.source_skin] = Neighbors
    /\ Source.matrix[0].conn # 0
    /\ Source.bindPreMatrix[0].pop /\ Source.bindPreMatrix[0].conn = 0
    /\ Target.matrix[0].conn # 0

(* C9: no target slot is connected before the values of all processed slot *)
(* indices are written, every connection is wired before the weights are   *)
(* written, and from the second pass on every processed slot holds a       *)
(* value.                                                                  *)
C9_TwoPass ==
    /\ (\E i \in Slots : Target.bindPreMatrix[i].conn # 0 \/ Target.matrix[i].conn # 0)
          => \A i \in Processed : Target.bindPreMatrix[i].pop /\ Target.matrix[i].pop
    /\ pc \in {"connections", "weights", "moved"}
          => \A i \in Processed : Target.bindPreMatrix[i].pop /\ Target.matrix[i].pop
    /\ Target.wset =>
          \A i \in Processed :
              /\ loc.bind_inputs[i + 1] # 0 =>
                    Target.bindPreMatrix[i].conn = loc.bind_inputs[i + 1]
              /\ loc.mat_inputs[i + 1] # 0 =>
                    Target.matrix[i].conn = loc.mat_inputs[i + 1]

\* the second pass under way: slot 0 wired, slot 1 holding its value only
C9_Witness ==
    /\ pc = "connections" /\ loc.index = 1
    /\ Processed = {0, 1}
    /\ Target.matrix[0].conn # 0
    /\ loc.mat_inputs[2] # 0
    /\ Target.matrix[1].pop /\ Target.matrix[1].conn = 0

(* C10: when the source object has no resolvable deform shape or no skin   *)
(* reaching it, move_skin fails before pm.deformer creates the target      *)
(* deformer: no MERGED__ deformer exists and the target is untouched.      *)
C10_FailsBeforeCreate ==
    (nsel = RequiredSelection /\ (DeformShape = None \/ ~SomeReaching)) =>
        /\ Target = Absent
        /\ pc \in {"start", "resolve", "failed"}

\* a run that failed on a source whose only skin does not reach the shape
C10_Witness ==
    /\ pc = "failed" /\ nsel = RequiredSelection
    /\ DeformShape # None
    /\ Len(history) = 1 /\ history[1].conn /\ ~SomeReaching
    /\ exc = "AttributeError" /\ selCleared

====
